---- MODULE Spec2Model ----
(***************************************************************************)
(* Client state machine of the PDF Flashcards Generator front end:         *)
(* App.jsx (App state, the three react-query mutations, apiService),       *)
(* FileUpload.jsx, SummarySection.jsx and FlashcardsSection.jsx.           *)
(*                                                                         *)
(* One step of the model is one browser event handled to completion: a     *)
(* user event on a rendered control, or the settling of one HTTP request   *)
(* (the mutation's onSuccess / onError callback).  React re-renders        *)
(* between two events, so every handler sees the current state.            *)
(***************************************************************************)
EXTENDS Integers, Sequences, FiniteSets, TLC

\* ---------------------------------------------------------------- bounds
\* number of request-triggering user actions explored
MaxActions == 3
\* number of request-triggering user actions explored in a session that
\* stays on the PDF tab
MaxPdfActions == 4
\* number of clicks explored on the cards on display
MaxFlips == 2

\* ------------------------------------------------------------- JS values
\* null / undefined
Null == [null |-> TRUE]
\* a message string (error banner, response detail)
Str(s) == [str |-> s]
\* truthiness of a message string or null: null, undefined and '' are falsy
Truthy(v) == v # Null /\ v # Str("")

\* a text passed where null is allowed (the variables of an upload)
Text(t) == [chars |-> t]
\* truthiness of such a text or null
TruthyText(v) == v # Null /\ v.chars # <<>>

\* texts are sequences of characters; '' is <<>>
\* the texts typed into the textarea: empty, whitespace only, plain, padded
TextInputs == {<<>>, <<" ">>, <<"a">>, <<" ", "a", " ">>}
\* a text taken as truthy whatever it holds
AlwaysTruthy(t) == TRUE

\* truthiness of a text: '' is falsy
NonEmpty(t) == t # <<>>

IsWhitespace(c) == c = " "

RECURSIVE TrimStart(_)
TrimStart(s) ==
  IF s = <<>> THEN s
  ELSE IF IsWhitespace(Head(s)) THEN TrimStart(Tail(s)) ELSE s

RECURSIVE TrimEnd(_)
TrimEnd(s) ==
  IF s = <<>> THEN s
  ELSE IF IsWhitespace(s[Len(s)]) THEN TrimEnd(SubSeq(s, 1, Len(s) - 1)) ELSE s

\* String.prototype.trim with no stripping at all
TrimNothing(s) == s

\* String.prototype.trim as used on textInput
Trim(s) == TrimEnd(TrimStart(s))

\* files offered by the picker or dropped on the drop zone
PdfFile == [name |-> "doc.pdf", type |-> "application/pdf"]
OtherFile == [name |-> "notes.txt", type |-> "text/plain"]
Files == {PdfFile, OtherFile}

\* options of the card-count selector
MinCards == 3
MaxCards == 10
CardOptions == MinCards..MaxCards
DefaultCards == 5
\* the options chosen: the smallest, the default and the largest
CardChoices == {MinCards, DefaultCards, MaxCards}

\* ------------------------------------------------------ server responses
\* text of an upload response
ResponseTexts == {<<>>, <<"a">>, <<"b">>}
UploadResponses == {[text |-> t] : t \in ResponseTexts}

\* the summary returned for a summarize call: it is derived from the text
\* of the request and belongs to that call
SummaryResponse(req) == [text |-> req.body.text, call |-> req.id]

\* the cards of a flashcards response
Cards(n) == [i \in 1..n |-> [question |-> i, answer |-> i]]

\* the flashcard set returned for a flashcards call: as many cards as
\* requested, counted in total_count
FlashcardsResponse(req) ==
  [text |-> req.body.text, call |-> req.id,
   flashcards |-> Cards(req.numCards), total_count |-> req.numCards]

\* the cards clicked: one that every set has, one that only the larger
\* sets have
ClickChoices == {1, 4}

\* apiService.uploadContent: the multipart form of an upload
UploadContent(file, text) ==
  IF file # Null /\ TruthyText(text) THEN [file |-> file, text |-> text.chars]
  ELSE IF file # Null THEN [file |-> file]
  ELSE IF TruthyText(text) THEN [text |-> text.chars]
  ELSE [field \in {} |-> Null]

\* rejected requests: no response at all, a response without body, a body
\* without detail, an empty detail, a detail message
Details == {"", "Only PDF files are supported"}
AxiosErrors ==
  {[response |-> Null],
   [response |-> [data |-> Null]],
   [response |-> [data |-> [detail |-> Null]]]}
  \cup {[response |-> [data |-> [detail |-> Str(d)]]] : d \in Details}

\* error.response?.data?.detail
ErrorDetail(e) ==
  IF e.response = Null THEN Null
  ELSE IF e.response.data = Null THEN Null
  ELSE e.response.data.detail

\* the banner message without the generic fallback
ErrorMessageNoFallback(e, generic) == ErrorDetail(e)

\* error.response?.data?.detail || generic
ErrorMessage(e, generic) ==
  IF Truthy(ErrorDetail(e)) THEN ErrorDetail(e) ELSE Str(generic)

UploadGeneric == "Failed to process content"
SummaryGeneric == "Failed to generate summary"
FlashcardsGeneric == "Failed to generate flashcards"

\* ------------------------------------------------------------------ state
VARIABLES
  extractedText,      \* App: useState('')
  summary,            \* App: useState(null)
  flashcards,         \* App: useState(null)
  error,              \* App: useState(null)
  activeTab,          \* FileUpload: useState('pdf')
  textInput,          \* FileUpload: useState('')
  selectedFile,       \* FileUpload: useState(null)
  numCards,           \* FlashcardsSection: useState(5)
  uploadMutation,     \* observer of useMutation(uploadContent)
  summaryMutation,    \* observer of useMutation(generateSummary)
  flashcardsMutation, \* observer of useMutation(generateFlashcards)
  uploadRequests,     \* POST /upload requests in flight
  summaryRequests,    \* POST /summarize requests in flight
  flashcardsRequests, \* POST /flashcards requests in flight
  flipped,            \* FlashcardItem: the cards on display with isFlipped
  clicks,             \* clicks received by each card on display
  extractedFrom,      \* the upload whose response extractedText holds
  userActions,        \* request-triggering user actions so far
  requestsDispatched, \* HTTP requests sent so far
  lastEvent           \* the event handled by the last step

appVars == <<extractedText, summary, flashcards, error>>
uploadFormVars == <<activeTab, textInput, selectedFile>>
mutationVars == <<uploadMutation, summaryMutation, flashcardsMutation>>
requestVars == <<uploadRequests, summaryRequests, flashcardsRequests>>
clientVars ==
  <<appVars, uploadFormVars, numCards, flipped, mutationVars, requestVars>>
vars ==
  <<clientVars, clicks, extractedFrom, userActions, requestsDispatched,
    lastEvent>>

Idle == [id |-> 0, status |-> "idle"]
IsLoading(mutation) == mutation.status = "loading"

\* the observer after one of its mutations settled: only the mutation it
\* currently observes (the latest one) changes its status
Settled(mutation, req, status) ==
  IF mutation.id = req.id THEN [mutation EXCEPT !.status = status] ELSE mutation

Event(kind, id) == [kind |-> kind, id |-> id]

Init ==
  /\ extractedText = <<>>
  /\ summary = Null
  /\ flashcards = Null
  /\ error = Null
  /\ activeTab = "pdf"
  /\ textInput = <<>>
  /\ selectedFile = Null
  /\ numCards = DefaultCards
  /\ uploadMutation = Idle
  /\ summaryMutation = Idle
  /\ flashcardsMutation = Idle
  /\ uploadRequests = {}
  /\ summaryRequests = {}
  /\ flashcardsRequests = {}
  /\ flipped = {}
  /\ clicks = [i \in ClickChoices |-> 0]
  /\ extractedFrom = 0
  /\ userActions = 0
  /\ requestsDispatched = 0
  /\ lastEvent = Event("init", 0)

\* ------------------------------------------------------------- dispatching
NoDispatch == UNCHANGED <<mutationVars, requestVars, requestsDispatched>>

\* uploadMutation.mutate({ file, text })
UploadMutate(file, text) ==
  LET req == [id |-> requestsDispatched + 1, body |-> UploadContent(file, text)]
  IN /\ uploadRequests' = uploadRequests \cup {req}
     /\ uploadMutation' = [id |-> req.id, status |-> "loading"]
     /\ requestsDispatched' = requestsDispatched + 1
     /\ UNCHANGED <<summaryMutation, flashcardsMutation,
                    summaryRequests, flashcardsRequests>>

\* summaryMutation.mutate(text)
SummaryMutate(text) ==
  LET req == [id |-> requestsDispatched + 1, body |-> [text |-> text]]
  IN /\ summaryRequests' = summaryRequests \cup {req}
     /\ summaryMutation' = [id |-> req.id, status |-> "loading"]
     /\ requestsDispatched' = requestsDispatched + 1
     /\ UNCHANGED <<uploadMutation, flashcardsMutation,
                    uploadRequests, flashcardsRequests>>

\* flashcardsMutation.mutate({ text, numCards })
FlashcardsMutate(text, n) ==
  LET req == [id |-> requestsDispatched + 1, numCards |-> n,
              body |-> [text |-> text]]
  IN /\ flashcardsRequests' = flashcardsRequests \cup {req}
     /\ flashcardsMutation' = [id |-> req.id, status |-> "loading"]
     /\ requestsDispatched' = requestsDispatched + 1
     /\ UNCHANGED <<uploadMutation, summaryMutation,
                    uploadRequests, summaryRequests>>

HandleFileSelect(file) == UploadMutate(file, Null)

\* a text submission that also sends the file selected earlier
HandleTextInputWithFile(text) == UploadMutate(selectedFile, Text(text))

HandleTextInput(text) == UploadMutate(Null, Text(text))

HandleGenerateSummary ==
  IF NonEmpty(extractedText) THEN SummaryMutate(extractedText) ELSE NoDispatch

HandleGenerateFlashcards(n) ==
  IF NonEmpty(extractedText) THEN FlashcardsMutate(extractedText, n)
  ELSE NoDispatch

\* FileUpload.handleFileChange, file = e.target.files[0]
HandleFileChange(file) ==
  IF file # Null /\ file.type = "application/pdf"
  THEN selectedFile' = file /\ HandleFileSelect(file)
  ELSE UNCHANGED selectedFile /\ NoDispatch

\* a handleDrop that takes a dropped file of any type
HandleDropAnyType(file) ==
  IF file # Null
  THEN selectedFile' = file /\ HandleFileSelect(file)
  ELSE UNCHANGED selectedFile /\ NoDispatch

\* FileUpload.handleDrop, file = e.dataTransfer.files[0]
HandleDrop(file) ==
  IF file # Null /\ file.type = "application/pdf"
  THEN selectedFile' = file /\ HandleFileSelect(file)
  ELSE UNCHANGED selectedFile /\ NoDispatch

\* FileUpload.handleTextSubmit
HandleTextSubmit ==
  IF NonEmpty(Trim(textInput)) THEN HandleTextInput(textInput) ELSE NoDispatch

\* a handleGenerate that always asks for the default count
HandleGenerateDefault == HandleGenerateFlashcards(DefaultCards)

\* FlashcardsSection.handleGenerate
HandleGenerate == HandleGenerateFlashcards(numCards)

\* ------------------------------------------------------- rendered controls
\* a file input disabled while any of the three requests is outstanding
FileInputDisabledByAny ==
  \/ IsLoading(uploadMutation)
  \/ IsLoading(summaryMutation)
  \/ IsLoading(flashcardsMutation)

\* the hidden file input: disabled={isLoading}
FileInputDisabled == IsLoading(uploadMutation)
\* the textarea: disabled={isLoading}
TextareaDisabled == IsLoading(uploadMutation)
\* Submit Text: disabled={!textInput.trim() || isLoading}
SubmitTextDisabled == ~NonEmpty(Trim(textInput)) \/ IsLoading(uploadMutation)
\* SummarySection and FlashcardsSection render nothing without extractedText
SummarySectionRendered == NonEmpty(extractedText)
FlashcardsSectionRendered == NonEmpty(extractedText)
\* a Generate Summary button that is never disabled
SummaryButtonNeverDisabled == FALSE
\* Generate Summary: disabled={isLoading}
SummaryButtonDisabled == IsLoading(summaryMutation)
\* Generate Flashcards and the card-count selector: disabled={isLoading}
FlashcardsButtonDisabled == IsLoading(flashcardsMutation)
NumCardsSelectDisabled == IsLoading(flashcardsMutation)

\* the id of the request a user event dispatched, 0 when it dispatched none
Dispatched == IF requestsDispatched' # requestsDispatched
              THEN requestsDispatched' ELSE 0

UserAction(kind) ==
  /\ userActions' = userActions + 1
  /\ lastEvent' = Event(kind, Dispatched)
  /\ UNCHANGED <<flipped, clicks, extractedFrom>>

UiEvent(kind) ==
  /\ lastEvent' = Event(kind, 0)
  /\ UNCHANGED <<extractedFrom, userActions, requestsDispatched>>

\* the FlashcardItems on display: FlashcardsSection renders nothing without
\* extractedText, and the cards only for a non-empty list
MountedCards(text, set) ==
  IF NonEmpty(text) /\ set # Null /\ Len(set.flashcards) > 0
  THEN 1..Len(set.flashcards) ELSE {}

\* a FlashcardItem (key={index}) keeps its state while it stays on display
\* and starts with isFlipped false when it is mounted
Reconcile ==
  LET kept == MountedCards(extractedText, flashcards)
                \cap MountedCards(extractedText', flashcards')
  IN /\ flipped' = flipped \cap kept
     /\ clicks' = [i \in ClickChoices |-> IF i \in kept THEN clicks[i] ELSE 0]

ClicksSoFar == clicks[1] + clicks[4]

\* ------------------------------------------------------------- user events
\* a tab button of FileUpload
SetActiveTab(tab) ==
  /\ tab # activeTab
  /\ activeTab' = tab
  /\ UNCHANGED <<appVars, textInput, selectedFile, numCards,
                 mutationVars, requestVars>>
  /\ UNCHANGED <<flipped, clicks>>
  /\ UiEvent("ui")

\* typing into the textarea
SetTextInput(t) ==
  /\ activeTab = "text"
  /\ ~TextareaDisabled
  /\ t # textInput
  /\ textInput' = t
  /\ UNCHANGED <<appVars, activeTab, selectedFile, numCards,
                 mutationVars, requestVars>>
  /\ UNCHANGED <<flipped, clicks>>
  /\ UiEvent("ui")

\* a click on Submit Text
SubmitText ==
  /\ activeTab = "text"
  /\ IF SubmitTextDisabled THEN NoDispatch ELSE HandleTextSubmit
  /\ UNCHANGED <<appVars, uploadFormVars, numCards>>
  /\ UserAction("submitText")

\* a file chosen in the picker opened through the file input
SelectFile(file) ==
  /\ activeTab = "pdf"
  /\ ~FileInputDisabled
  /\ HandleFileChange(file)
  /\ UNCHANGED <<appVars, activeTab, textInput, numCards>>
  /\ UserAction("selectFile")

\* something dropped on the drop zone; Null when the drop carries no file
DropFile(file) ==
  /\ activeTab = "pdf"
  /\ HandleDrop(file)
  /\ UNCHANGED <<appVars, activeTab, textInput, numCards>>
  /\ UserAction("dropFile")

\* a click on Generate Summary
GenerateSummary ==
  /\ SummarySectionRendered
  /\ IF SummaryButtonDisabled THEN NoDispatch ELSE HandleGenerateSummary
  /\ UNCHANGED <<appVars, uploadFormVars, numCards>>
  /\ UserAction("generateSummary")

\* a click on Generate Flashcards
GenerateFlashcards ==
  /\ FlashcardsSectionRendered
  /\ IF FlashcardsButtonDisabled THEN NoDispatch ELSE HandleGenerate
  /\ UNCHANGED <<appVars, uploadFormVars, numCards>>
  /\ UserAction("generateFlashcards")

\* a choice in the card-count selector
SetNumCards(n) ==
  /\ FlashcardsSectionRendered
  /\ ~NumCardsSelectDisabled
  /\ n # numCards
  /\ numCards' = n
  /\ UNCHANGED <<appVars, uploadFormVars, mutationVars, requestVars>>
  /\ UNCHANGED <<flipped, clicks>>
  /\ UiEvent("ui")

\* the close button of the error banner, rendered while error is truthy
ClearError ==
  /\ Truthy(error)
  /\ error' = Null
  /\ UNCHANGED <<extractedText, summary, flashcards, uploadFormVars, numCards,
                 mutationVars, requestVars>>
  /\ UNCHANGED <<flipped, clicks>>
  /\ UiEvent("clearError")

\* a click that turns every card on display
FlipAllCards(i) ==
  /\ i \in MountedCards(extractedText, flashcards)
  /\ ClicksSoFar < MaxFlips
  /\ flipped' = MountedCards(extractedText, flashcards) \ flipped
  /\ clicks' = [clicks EXCEPT ![i] = @ + 1]
  /\ UNCHANGED <<appVars, uploadFormVars, numCards, mutationVars, requestVars>>
  /\ UiEvent("flipCard")

\* a click on card i: setIsFlipped(!isFlipped)
FlipCard(i) ==
  /\ i \in MountedCards(extractedText, flashcards)
  /\ ClicksSoFar < MaxFlips
  /\ flipped' = IF i \in flipped THEN flipped \ {i} ELSE flipped \cup {i}
  /\ clicks' = [clicks EXCEPT ![i] = @ + 1]
  /\ UNCHANGED <<appVars, uploadFormVars, numCards, mutationVars, requestVars>>
  /\ UiEvent("flipCard")

\* ------------------------------------------------------ mutation callbacks
\* uploadMutation onSuccess that keeps the generated results
UploadOnSuccessKeepsResults(data) ==
  /\ extractedText' = data.text
  /\ error' = Null
  /\ UNCHANGED <<summary, flashcards>>

UploadOnSuccess(data) ==
  /\ extractedText' = data.text
  /\ summary' = Null
  /\ flashcards' = Null
  /\ error' = Null

\* uploadMutation onError that also drops the extracted text
UploadOnErrorRollsBack(e) ==
  /\ error' = ErrorMessage(e, UploadGeneric)
  /\ extractedText' = <<>>
  /\ UNCHANGED <<summary, flashcards>>

UploadOnError(e) ==
  /\ error' = ErrorMessage(e, UploadGeneric)
  /\ UNCHANGED <<extractedText, summary, flashcards>>

\* summaryMutation onSuccess that also clears the flashcards
SummaryOnSuccessClearsFlashcards(data) ==
  /\ summary' = data
  /\ flashcards' = Null
  /\ error' = Null
  /\ UNCHANGED extractedText

\* summaryMutation onSuccess that leaves the banner alone
SummaryOnSuccessKeepsError(data) ==
  /\ summary' = data
  /\ UNCHANGED <<extractedText, flashcards, error>>

SummaryOnSuccess(data) ==
  /\ summary' = data
  /\ error' = Null
  /\ UNCHANGED <<extractedText, flashcards>>

\* summaryMutation onError that also drops the stored summary
SummaryOnErrorClearsSummary(e) ==
  /\ error' = ErrorMessage(e, SummaryGeneric)
  /\ summary' = Null
  /\ UNCHANGED <<extractedText, flashcards>>

SummaryOnError(e) ==
  /\ error' = ErrorMessage(e, SummaryGeneric)
  /\ UNCHANGED <<extractedText, summary, flashcards>>

\* flashcardsMutation onSuccess that stores the list without its last card
FlashcardsOnSuccessDropsLast(data) ==
  /\ flashcards' =
       [data EXCEPT !.flashcards = SubSeq(@, 1, Len(@) - 1)]
  /\ error' = Null
  /\ UNCHANGED <<extractedText, summary>>

FlashcardsOnSuccess(data) ==
  /\ flashcards' = data
  /\ error' = Null
  /\ UNCHANGED <<extractedText, summary>>

FlashcardsOnError(e) ==
  /\ error' = ErrorMessage(e, FlashcardsGeneric)
  /\ UNCHANGED <<extractedText, summary, flashcards>>

\* ------------------------------------------------------- settled requests
Response(kind, req) ==
  /\ lastEvent' = Event(kind, req.id)
  /\ Reconcile
  /\ UNCHANGED <<uploadFormVars, numCards, userActions, requestsDispatched>>

UploadSuccess(req, data) ==
  /\ uploadRequests' = uploadRequests \ {req}
  /\ uploadMutation' = Settled(uploadMutation, req, "success")
  /\ UploadOnSuccess(data)
  /\ extractedFrom' = req.id
  /\ UNCHANGED <<summaryMutation, flashcardsMutation,
                 summaryRequests, flashcardsRequests>>
  /\ Response("uploadSuccess", req)

\* an upload failure that sends the request again
UploadErrorRetries(req, e) ==
  /\ uploadRequests' =
       (uploadRequests \ {req}) \cup {[req EXCEPT !.id = requestsDispatched + 1]}
  /\ uploadMutation' =
       IF uploadMutation.id = req.id
       THEN [id |-> requestsDispatched + 1, status |-> "loading"]
       ELSE uploadMutation
  /\ requestsDispatched' = requestsDispatched + 1
  /\ UploadOnError(e)
  /\ UNCHANGED <<summaryMutation, flashcardsMutation,
                 summaryRequests, flashcardsRequests>>
  /\ lastEvent' = Event("uploadError", req.id)
  /\ UNCHANGED <<uploadFormVars, numCards, userActions, flipped, clicks,
                 extractedFrom>>

UploadError(req, e) ==
  /\ uploadRequests' = uploadRequests \ {req}
  /\ uploadMutation' = Settled(uploadMutation, req, "error")
  /\ UploadOnError(e)
  /\ UNCHANGED <<summaryMutation, flashcardsMutation,
                 summaryRequests, flashcardsRequests>>
  /\ UNCHANGED extractedFrom
  /\ Response("uploadError", req)

\* a summarize response that is dropped when the text has changed since
SummarySuccessDropsStale(req) ==
  /\ summaryRequests' = summaryRequests \ {req}
  /\ summaryMutation' = Settled(summaryMutation, req, "success")
  /\ IF req.body.text = extractedText
     THEN SummaryOnSuccess(SummaryResponse(req))
          /\ lastEvent' = Event("summarySuccess", req.id)
     ELSE UNCHANGED appVars /\ lastEvent' = Event("discarded", req.id)
  /\ Reconcile
  /\ UNCHANGED <<uploadMutation, flashcardsMutation, uploadRequests,
                 flashcardsRequests, extractedFrom, uploadFormVars, numCards,
                 userActions, requestsDispatched>>

SummarySuccess(req) ==
  /\ summaryRequests' = summaryRequests \ {req}
  /\ summaryMutation' = Settled(summaryMutation, req, "success")
  /\ SummaryOnSuccess(SummaryResponse(req))
  /\ UNCHANGED <<uploadMutation, flashcardsMutation,
                 uploadRequests, flashcardsRequests>>
  /\ UNCHANGED extractedFrom
  /\ Response("summarySuccess", req)

SummaryError(req, e) ==
  /\ summaryRequests' = summaryRequests \ {req}
  /\ summaryMutation' = Settled(summaryMutation, req, "error")
  /\ SummaryOnError(e)
  /\ UNCHANGED <<uploadMutation, flashcardsMutation,
                 uploadRequests, flashcardsRequests>>
  /\ UNCHANGED extractedFrom
  /\ Response("summaryError", req)

FlashcardsSuccess(req) ==
  /\ flashcardsRequests' = flashcardsRequests \ {req}
  /\ flashcardsMutation' = Settled(flashcardsMutation, req, "success")
  /\ FlashcardsOnSuccess(FlashcardsResponse(req))
  /\ UNCHANGED <<uploadMutation, summaryMutation,
                 uploadRequests, summaryRequests>>
  /\ UNCHANGED extractedFrom
  /\ Response("flashcardsSuccess", req)

FlashcardsError(req, e) ==
  /\ flashcardsRequests' = flashcardsRequests \ {req}
  /\ flashcardsMutation' = Settled(flashcardsMutation, req, "error")
  /\ FlashcardsOnError(e)
  /\ UNCHANGED <<uploadMutation, summaryMutation,
                 uploadRequests, summaryRequests>>
  /\ UNCHANGED extractedFrom
  /\ Response("flashcardsError", req)

\* the settling of a request in flight
Settle ==
  \/ \E req \in uploadRequests, data \in UploadResponses : UploadSuccess(req, data)
  \/ \E req \in uploadRequests, e \in AxiosErrors : UploadError(req, e)
  \/ \E req \in summaryRequests : SummarySuccess(req)
  \/ \E req \in summaryRequests, e \in AxiosErrors : SummaryError(req, e)
  \/ \E req \in flashcardsRequests : FlashcardsSuccess(req)
  \/ \E req \in flashcardsRequests, e \in AxiosErrors : FlashcardsError(req, e)

Next ==
  \/ \E tab \in {"pdf", "text"} : SetActiveTab(tab)
  \/ \E t \in TextInputs : SetTextInput(t)
  \/ userActions < MaxActions /\ SubmitText
  \/ \E file \in Files : userActions < MaxActions /\ SelectFile(file)
  \/ \E file \in Files \cup {Null} :
        userActions < MaxActions /\ DropFile(file)
  \/ userActions < MaxActions /\ GenerateSummary
  \/ userActions < MaxActions /\ GenerateFlashcards
  \/ \E n \in CardChoices : SetNumCards(n)
  \/ ClearError
  \/ \E req \in uploadRequests, data \in UploadResponses : UploadSuccess(req, data)
  \/ \E req \in uploadRequests, e \in AxiosErrors : UploadError(req, e)
  \/ \E req \in summaryRequests : SummarySuccess(req)
  \/ \E req \in summaryRequests, e \in AxiosErrors : SummaryError(req, e)
  \/ \E req \in flashcardsRequests : FlashcardsSuccess(req)
  \/ \E req \in flashcardsRequests, e \in AxiosErrors : FlashcardsError(req, e)

Spec == Init /\ [][Next]_vars

\* a longer session of a user who stays on the PDF tab and keeps the
\* default card count
NextPdf ==
  \/ \E file \in Files : userActions < MaxPdfActions /\ SelectFile(file)
  \/ \E file \in Files : userActions < MaxPdfActions /\ DropFile(file)
  \/ userActions < MaxPdfActions /\ GenerateSummary
  \/ userActions < MaxPdfActions /\ GenerateFlashcards
  \/ \E req \in uploadRequests, data \in UploadResponses : UploadSuccess(req, data)
  \/ \E req \in uploadRequests, e \in AxiosErrors : UploadError(req, e)
  \/ \E req \in summaryRequests : SummarySuccess(req)
  \/ \E req \in summaryRequests, e \in AxiosErrors : SummaryError(req, e)
  \/ \E req \in flashcardsRequests : FlashcardsSuccess(req)
  \/ \E req \in flashcardsRequests, e \in AxiosErrors : FlashcardsError(req, e)

PdfSpec == Init /\ [][NextPdf]_vars

\* the same session with a server that answers every request
FairPdfSpec == PdfSpec /\ WF_vars(Settle)

\* a session of a user who uploads PDFs, generates flashcards and clicks the
\* cards on display
NextCards ==
  \/ \E file \in Files : userActions < MaxActions /\ SelectFile(file)
  \/ \E file \in Files : userActions < MaxActions /\ DropFile(file)
  \/ userActions < MaxActions /\ GenerateFlashcards
  \/ \E n \in CardChoices : SetNumCards(n)
  \/ \E i \in ClickChoices : FlipCard(i)
  \/ \E req \in uploadRequests, data \in UploadResponses : UploadSuccess(req, data)
  \/ \E req \in uploadRequests, e \in AxiosErrors : UploadError(req, e)
  \/ \E req \in flashcardsRequests : FlashcardsSuccess(req)
  \/ \E req \in flashcardsRequests, e \in AxiosErrors : FlashcardsError(req, e)

CardSpec == Init /\ [][NextCards]_vars

\* ------------------------------------------------------------- properties
ErrorKinds == {"uploadError", "summaryError", "flashcardsError"}
UserActionKinds ==
  {"submitText", "selectFile", "dropFile", "generateSummary",
   "generateFlashcards"}

\* C1: a summary that is held was generated from the text held as
\* extractedText, and so was a flashcard set that is held.
C1_ResultsFromCurrentText ==
  /\ summary # Null => summary.text = extractedText
  /\ flashcards # Null => flashcards.text = extractedText

\* C2: right after an upload success extractedText is the text of the
\* response and summary, flashcards and error are null.
C2_UploadSuccessResets ==
  [][\A req \in uploadRequests, data \in UploadResponses :
       UploadSuccess(req, data) =>
         /\ extractedText' = data.text
         /\ summary' = Null
         /\ flashcards' = Null
         /\ error' = Null]_vars

\* upload A, summarize (summary stored), upload B: the second upload success
\* was handled while a summary was held
C2_Witness ==
  /\ lastEvent = Event("uploadSuccess", 3)
  /\ summaryMutation = [id |-> 2, status |-> "success"]
  /\ extractedText # <<>>
  /\ summary = Null

\* C3: a failed upload, summarize or flashcards request leaves a non-empty
\* error banner and keeps extractedText, summary and flashcards as they were.
C3_FailureKeepsState ==
  [][lastEvent'.kind \in ErrorKinds =>
       /\ error' # Null
       /\ error' # Str("")
       /\ extractedText' = extractedText
       /\ summary' = summary
       /\ flashcards' = flashcards]_vars

\* an upload failed while text and a summary were held
C3_Witness ==
  /\ lastEvent.kind = "uploadError"
  /\ extractedText # <<>>
  /\ summary # Null
  /\ error # Null

\* C4: at most one upload request is in flight.
C4_AtMostOneUpload == Cardinality(uploadRequests) <= 1

\* C5: at most one summarize and at most one flashcards request are in
\* flight, and while one is in flight its button (and, for flashcards, the
\* card-count selector) is disabled.
C5_OneGenerationInFlight ==
  /\ Cardinality(summaryRequests) <= 1
  /\ Cardinality(flashcardsRequests) <= 1
  /\ summaryRequests # {} => SummaryButtonDisabled
  /\ flashcardsRequests # {} =>
       FlashcardsButtonDisabled /\ NumCardsSelectDisabled

\* Generate Summary was clicked while a summarize request was in flight and
\* dispatched nothing
C5_Witness ==
  /\ lastEvent = Event("generateSummary", 0)
  /\ Cardinality(summaryRequests) = 1

\* C6: a summarize success stores its response as summary and leaves
\* flashcards and extractedText alone; a flashcards success stores its
\* response as flashcards and leaves summary and extractedText alone.
C6_SuccessTouchesOwnBranch ==
  [][/\ \A req \in summaryRequests :
          SummarySuccess(req) =>
            /\ summary' = [text |-> req.body.text, call |-> req.id]
            /\ flashcards' = flashcards
            /\ extractedText' = extractedText
     /\ \A req \in flashcardsRequests :
          FlashcardsSuccess(req) =>
            /\ flashcards' # Null
            /\ flashcards'.call = req.id
            /\ summary' = summary
            /\ extractedText' = extractedText]_vars

\* a summarize success was handled while a flashcard set was held
C6_Witness ==
  /\ lastEvent.kind = "summarySuccess"
  /\ summary # Null
  /\ flashcards # Null

\* no summary, no flashcards, and no generation request sent so far
NothingGenerated ==
  /\ extractedText = <<>>
  /\ summary = Null
  /\ flashcards = Null
  /\ summaryRequests = {}
  /\ flashcardsRequests = {}

\* C7: a summarize or flashcards request is dispatched only while
\* extractedText is non-empty, and until the first upload success summary
\* and flashcards stay null.
C7_NoGenerationWithoutText ==
  /\ NothingGenerated
  /\ [][/\ \A req \in (summaryRequests' \ summaryRequests)
                        \cup (flashcardsRequests' \ flashcardsRequests) :
             extractedText # <<>> /\ req.body.text # <<>>
        /\ NothingGenerated =>
             NothingGenerated' \/ lastEvent'.kind = "uploadSuccess"]_vars

\* an upload succeeded with an empty text: the sections stay hidden and
\* nothing has been generated
C7_Witness ==
  /\ lastEvent.kind = "uploadSuccess"
  /\ extractedText = <<>>
  /\ summary = Null
  /\ flashcards = Null
  /\ summaryRequests = {}
  /\ flashcardsRequests = {}

OnlyWhitespace(t) == \A i \in 1..Len(t) : t[i] = " "

\* C8: a click on Submit Text while the text field is empty or holds only
\* whitespace dispatches no upload request and changes no client state.
C8_BlankTextNotSubmitted ==
  [][(lastEvent'.kind = "submitText" /\ userActions' # userActions
        /\ OnlyWhitespace(textInput)) =>
       /\ UNCHANGED clientVars
       /\ requestsDispatched' = requestsDispatched]_vars

\* Submit Text was clicked on a whitespace-only text
C8_Witness ==
  /\ lastEvent = Event("submitText", 0)
  /\ textInput = <<" ">>
  /\ uploadRequests = {}

\* the failures that carry a non-empty detail
WithDetail ==
  {[response |-> [data |-> [detail |-> Str(d)]]] : d \in Details \ {""}}

Banner(e, generic) ==
  IF e \in WithDetail THEN e.response.data.detail ELSE Str(generic)

\* C9: after a failure the banner holds the detail of the response when it
\* has a non-empty one, and otherwise the generic message of the action.
C9_BannerMessage ==
  [][/\ \A req \in uploadRequests, e \in AxiosErrors :
          UploadError(req, e) =>
            error' = Banner(e, "Failed to process content")
     /\ \A req \in summaryRequests, e \in AxiosErrors :
          SummaryError(req, e) =>
            error' = Banner(e, "Failed to generate summary")
     /\ \A req \in flashcardsRequests, e \in AxiosErrors :
          FlashcardsError(req, e) =>
            error' = Banner(e, "Failed to generate flashcards")]_vars

\* a summarize request failed without a usable detail
C9_Witness ==
  /\ lastEvent.kind = "summaryError"
  /\ error = Str("Failed to generate summary")

\* C10: a request is dispatched only by a user action, one request at most
\* per action; a failure dispatches nothing, so the requests dispatched
\* never outnumber the user actions.
C10_RequestsFromUserActions ==
  /\ [](requestsDispatched <= userActions)
  /\ [][/\ requestsDispatched' # requestsDispatched =>
             /\ requestsDispatched' = requestsDispatched + 1
             /\ userActions' = userActions + 1
             /\ lastEvent'.kind \in UserActionKinds
        /\ lastEvent'.kind \in ErrorKinds =>
             /\ requestsDispatched' = requestsDispatched
             /\ uploadRequests' \subseteq uploadRequests
             /\ summaryRequests' \subseteq summaryRequests
             /\ flashcardsRequests' \subseteq flashcardsRequests]_vars

\* the only request sent so far has failed and nothing is in flight
C10_Witness ==
  /\ lastEvent = Event("uploadError", 1)
  /\ requestsDispatched = 1
  /\ userActions = 1
  /\ uploadRequests = {}

ResponseKinds ==
  {"uploadSuccess", "uploadError", "summarySuccess", "summaryError",
   "flashcardsSuccess", "flashcardsError"}

InFlight(id) ==
  \E req \in uploadRequests \cup summaryRequests \cup flashcardsRequests :
    req.id = id

\* the success or failure handler of the request was the last thing applied
Handled(id) ==
  \/ lastEvent \in {Event("uploadSuccess", id), Event("uploadError", id)}
  \/ lastEvent \in {Event("summarySuccess", id), Event("summaryError", id)}
  \/ lastEvent \in {Event("flashcardsSuccess", id), Event("flashcardsError", id)}

\* C11: with a server that answers every request, every dispatched request
\* has its success or its failure handler applied, once; a request leaves
\* the network only through one of its handlers, also a summarize or
\* flashcards request that is answered after a newer upload succeeded.
C11_EveryResponseHandled ==
  /\ \A id \in 1..MaxPdfActions : InFlight(id) ~> Handled(id)
  /\ [][\A id \in 1..MaxPdfActions :
          /\ (InFlight(id) /\ ~InFlight(id)') =>
               \/ /\ \E req \in uploadRequests : req.id = id
                  /\ lastEvent' \in {Event("uploadSuccess", id),
                                     Event("uploadError", id)}
               \/ /\ \E req \in summaryRequests : req.id = id
                  /\ lastEvent' \in {Event("summarySuccess", id),
                                     Event("summaryError", id)}
               \/ /\ \E req \in flashcardsRequests : req.id = id
                  /\ lastEvent' \in {Event("flashcardsSuccess", id),
                                     Event("flashcardsError", id)}
          /\ (~InFlight(id) /\ InFlight(id)') => id = requestsDispatched + 1
          /\ (lastEvent'.kind \in ResponseKinds /\ lastEvent'.id = id
                /\ lastEvent' # lastEvent) =>
               InFlight(id) /\ ~InFlight(id)']_vars

\* the response to a summarize request sent for an earlier text was applied
\* after a newer upload had succeeded
C11_Witness ==
  /\ lastEvent.kind = "summarySuccess"
  /\ summary # Null
  /\ summary.call = lastEvent.id
  /\ extractedFrom > summary.call

\* a click in the picker that sends an upload
PickerUploads ==
  SelectFile(PdfFile) /\ Cardinality(uploadRequests') = Cardinality(uploadRequests) + 1

\* C12: requests of different actions can be outstanding together: while a
\* summarize or flashcards request is in flight the file picker still sends
\* an upload, and while an upload or a flashcards (summarize) request is in
\* flight Generate Summary (Generate Flashcards) still sends its request.
C12_UnrelatedActionsNotBlocked ==
  /\ (activeTab = "pdf" /\ uploadRequests = {}
        /\ (summaryRequests # {} \/ flashcardsRequests # {})) =>
       ENABLED PickerUploads
  /\ (extractedText # <<>> /\ summaryRequests = {}
        /\ (uploadRequests # {} \/ flashcardsRequests # {})) =>
       ENABLED (GenerateSummary /\ summaryRequests' # {})
  /\ (extractedText # <<>> /\ flashcardsRequests = {}
        /\ (uploadRequests # {} \/ summaryRequests # {})) =>
       ENABLED (GenerateFlashcards /\ flashcardsRequests' # {})

\* an upload, a summarize and a flashcards request are in flight together
C12_Witness ==
  /\ uploadRequests # {}
  /\ summaryRequests # {}
  /\ flashcardsRequests # {}

\* C13: an upload request carries exactly one multipart field: file (and no
\* text) when a file was selected or dropped, text (and no file) when a text
\* was submitted.
C13_OneUploadField ==
  \A req \in uploadRequests :
    /\ DOMAIN req.body \in {{"file"}, {"text"}}
    /\ (lastEvent.id = req.id /\ lastEvent.kind \in {"selectFile", "dropFile"}) =>
         DOMAIN req.body = {"file"} /\ req.body.file = selectedFile
    /\ (lastEvent.id = req.id /\ lastEvent.kind = "submitText") =>
         DOMAIN req.body = {"text"} /\ req.body.text = textInput

\* a text was submitted after a file had been selected
C13_Witness ==
  /\ lastEvent.kind = "submitText"
  /\ lastEvent.id # 0
  /\ selectedFile # Null
  /\ \E req \in uploadRequests : req.id = lastEvent.id

\* C14: a flashcards request asks for the card count selected when Generate
\* Flashcards was clicked, an integer in 3..10 (5 until the user changes
\* it), and its body holds the extractedText of that moment.
C14_NumCardsAsSelected ==
  /\ numCards = 5
  /\ [](numCards \in 3..10)
  /\ [][\A req \in flashcardsRequests' \ flashcardsRequests :
          /\ lastEvent' = Event("generateFlashcards", req.id)
          /\ req.numCards = numCards
          /\ req.numCards \in 3..10
          /\ req.body.text = extractedText]_vars

\* a flashcards request was sent after the user had selected 10 cards
C14_Witness ==
  /\ lastEvent.kind = "generateFlashcards"
  /\ numCards = 10
  /\ \E req \in flashcardsRequests :
       req.id = lastEvent.id /\ req.numCards = 10

C16_Original ==
  [][/\ \A req \in summaryRequests :
          SummarySuccess(req) =>
            summary' = [text |-> req.body.text, call |-> req.id]
     /\ \A req \in flashcardsRequests :
          FlashcardsSuccess(req) =>
            flashcards' # Null /\ flashcards'.call = req.id
     /\ (summaryRequests # {} /\ lastEvent'.kind # "summarySuccess") =>
          summary' = summary
     /\ (flashcardsRequests # {} /\ lastEvent'.kind # "flashcardsSuccess") =>
          flashcards' = flashcards]_vars

\* C16 (amended): a success stores exactly the response of its call; while
\* a call is pending, or when it fails, the stored summary (flashcard set)
\* is kept, except that an upload success sets it to null.
C16_StoredUntilSuccess ==
  [][/\ \A req \in summaryRequests :
          SummarySuccess(req) =>
            summary' = [text |-> req.body.text, call |-> req.id]
     /\ \A req \in flashcardsRequests :
          FlashcardsSuccess(req) =>
            flashcards' # Null /\ flashcards'.call = req.id
     /\ (summaryRequests # {} /\ lastEvent'.kind # "summarySuccess") =>
          \/ summary' = summary
          \/ lastEvent'.kind = "uploadSuccess" /\ summary' = Null
     /\ (flashcardsRequests # {} /\ lastEvent'.kind # "flashcardsSuccess") =>
          \/ flashcards' = flashcards
          \/ lastEvent'.kind = "uploadSuccess" /\ flashcards' = Null]_vars

\* a second summarize call failed and the summary of the first is still held
C16_Witness ==
  /\ lastEvent.kind = "summaryError"
  /\ summary # Null
  /\ summary.call < lastEvent.id

\* C17: a click on a card toggles it between question and answer: a card
\* on display that has received an odd number of clicks shows its answer,
\* an even number its question, and a click on one card changes the side of
\* no other card.
C17_ClickToggles ==
  /\ [](\A i \in ClickChoices :
          /\ i \in flipped => i \in MountedCards(extractedText, flashcards)
          /\ i \in MountedCards(extractedText, flashcards) =>
               (i \in flipped <=> clicks[i] % 2 = 1))
  /\ [][lastEvent'.kind = "flipCard" =>
          \E i \in ClickChoices :
            /\ clicks' = [clicks EXCEPT ![i] = @ + 1]
            /\ (i \in flipped') # (i \in flipped)
            /\ flipped' \ {i} = flipped \ {i}]_vars

\* card 1 was clicked twice and shows its question again, card 4 is on
\* display and was never clicked
C17_Witness ==
  /\ lastEvent.kind = "flipCard"
  /\ clicks[1] = 2
  /\ 1 \notin flipped
  /\ 4 \in MountedCards(extractedText, flashcards)
  /\ clicks[4] = 0

\* C18: the response to an earlier upload never overwrites the text of a
\* later one: the uploads whose text is taken have increasing numbers.
C18_LatestUploadWins ==
  [][extractedFrom' >= extractedFrom]_vars

\* C19: when a flashcards success stores a new set, every card of the set
\* shows its question.
C19_NewSetShowsQuestions ==
  (lastEvent.kind = "flashcardsSuccess" /\ flashcards # Null) =>
    flipped = {}

\* C20: the banner is removed only by the user dismissing it or by the
\* success of a request; every success removes it, whichever action had
\* failed, and a failure puts its own message in it.
C20_BannerRemoval ==
  [][/\ (error # Null /\ error' = Null) =>
          lastEvent'.kind \in {"clearError", "uploadSuccess",
                               "summarySuccess", "flashcardsSuccess"}
     /\ (lastEvent' # lastEvent /\
           lastEvent'.kind \in {"clearError", "uploadSuccess",
                                "summarySuccess", "flashcardsSuccess"}) =>
          error' = Null
     /\ (lastEvent' # lastEvent /\ lastEvent'.kind = "uploadError") =>
          \E e \in AxiosErrors : error' = ErrorMessage(e, UploadGeneric)
     /\ (lastEvent' # lastEvent /\ lastEvent'.kind = "summaryError") =>
          \E e \in AxiosErrors : error' = ErrorMessage(e, SummaryGeneric)
     /\ (lastEvent' # lastEvent /\ lastEvent'.kind = "flashcardsError") =>
          \E e \in AxiosErrors : error' = ErrorMessage(e, FlashcardsGeneric)
    ]_vars

\* the banner of a failed upload was removed by the success of a summarize
\* request
C20_Witness ==
  /\ lastEvent.kind = "summarySuccess"
  /\ error = Null
  /\ uploadMutation.status = "error"
  /\ uploadMutation.id > lastEvent.id

\* C21: selecting or dropping a file whose type is not application/pdf, or
\* dropping nothing, sends no upload request and leaves selectedFile,
\* extractedText, summary, flashcards and error unchanged.
C21_NonPdfRejected ==
  [][/\ SelectFile(OtherFile) =>
          /\ uploadRequests' = uploadRequests
          /\ requestsDispatched' = requestsDispatched
          /\ selectedFile' = selectedFile
          /\ <<extractedText, summary, flashcards, error>>' =
               <<extractedText, summary, flashcards, error>>
     /\ \A file \in {OtherFile, Null} :
          DropFile(file) =>
            /\ uploadRequests' = uploadRequests
            /\ requestsDispatched' = requestsDispatched
            /\ selectedFile' = selectedFile
            /\ <<extractedText, summary, flashcards, error>>' =
                 <<extractedText, summary, flashcards, error>>]_vars

\* a drop was rejected while a PDF selected earlier and its text are held
C21_Witness ==
  /\ lastEvent = Event("dropFile", 0)
  /\ selectedFile = PdfFile
  /\ extractedText # <<>>
  /\ uploadRequests = {}

====
